---------------------------- MODULE Spec2Model ----------------------------
(***************************************************************************)
(* ecdf_estimator: ECDF vectors of pairwise distances, their mean and      *)
(* covariance, and the quadratic objective evaluated against them.         *)
(*                                                                         *)
(* Numbers.  A numpy float is modelled exactly, as a fraction <<n, d>> in  *)
(* lowest terms with d > 0; <<0, 0>> is NaN and <<1, 0>>, <<-1, 0>> are    *)
(* +inf, -inf (numpy divides by zero with a warning, it does not raise).   *)
(* Rounding is not modelled: a matrix is singular here exactly when its    *)
(* determinant is zero.                                                    *)
(***************************************************************************)
EXTENDS Integers, Sequences, FiniteSets, TLC

VARIABLES
  heap,      \* the estimator objects constructed so far, in order of construction
  warnings,  \* per object: how often the singular-covariance warning was printed
  call       \* the last operation: its name, arguments, exception and return value

vars == <<heap, warnings, call>>

(***************************************************************************)
(* Bounds of the model.                                                    *)
(***************************************************************************)
MaxLen  == 3   \* longest distance list handed to the vectorizer directly
MaxBins == 2   \* longest bin list handed to the vectorizer directly
MaxVal  == 2   \* largest distance / bin value / dataset element

Values == 0..MaxVal

SeqsUpTo(S, n) == UNION { [1..m -> S] : m \in 0..n }

(***************************************************************************)
(* Exact arithmetic on fractions.                                          *)
(***************************************************************************)
Abs(x) == IF x < 0 THEN -x ELSE x

RECURSIVE Gcd(_, _)
Gcd(a, b) == IF b = 0 THEN a ELSE Gcd(b, a % b)

Sign(x) == IF x > 0 THEN 1 ELSE IF x < 0 THEN -1 ELSE 0

NaN == <<0, 0>>

\* n / d as a float: lowest terms, positive denominator; d = 0 gives nan or +-inf.
Frac(n, d) ==
  IF d = 0 THEN <<Sign(n), 0>>
  ELSE LET g == Gcd(Abs(n), Abs(d))
           s == IF d < 0 THEN -1 ELSE 1
       IN  <<(s * n) \div g, (s * d) \div g>>

IsNaN(a) == a = NaN
IsFinite(a) == a[2] # 0

RInt(n) == <<n, 1>>

RAdd(a, b) ==
  IF IsFinite(a) /\ IsFinite(b) THEN Frac(a[1] * b[2] + b[1] * a[2], a[2] * b[2])
  ELSE IF IsNaN(a) \/ IsNaN(b) THEN NaN
  ELSE IF ~IsFinite(a) /\ ~IsFinite(b) THEN (IF a = b THEN a ELSE NaN)
  ELSE IF IsFinite(a) THEN b ELSE a

RNeg(a) == <<-a[1], a[2]>>

RSub(a, b) == RAdd(a, RNeg(b))

RMul(a, b) ==
  IF IsFinite(a) /\ IsFinite(b) THEN Frac(a[1] * b[1], a[2] * b[2])
  ELSE IF IsNaN(a) \/ IsNaN(b) \/ a[1] = 0 \/ b[1] = 0 THEN NaN
  ELSE <<Sign(a[1]) * Sign(b[1]), 0>>

\* numpy true division: x / 0 is nan (x = 0) or +-inf, never an exception.
RDiv(a, b) ==
  IF IsFinite(a) /\ IsFinite(b) THEN Frac(a[1] * b[2], a[2] * b[1])
  ELSE IF IsNaN(a) \/ IsNaN(b) THEN NaN
  ELSE IF ~IsFinite(a) /\ ~IsFinite(b) THEN NaN
  ELSE IF IsFinite(a) THEN RInt(0)
  ELSE <<a[1] * (IF b[1] < 0 THEN -1 ELSE 1), 0>>

\* a <= b on finite fractions
RLeq(a, b) == a[1] * b[2] <= b[1] * a[2]

RECURSIVE RSum(_)
RSum(s) == IF s = <<>> THEN RInt(0) ELSE RAdd(Head(s), RSum(Tail(s)))

(***************************************************************************)
(* ECDF Vectorizer.                                                        *)
(***************************************************************************)
\* Mutant of CountBelow: "<=" in place of "<".
RECURSIVE CountBelow_Leq(_, _)
CountBelow_Leq(distance_list, basket) ==
  IF distance_list = <<>> THEN 0
  ELSE (IF Head(distance_list) <= basket THEN 1 ELSE 0)
       + CountBelow_Leq(Tail(distance_list), basket)

\* np.sum([distance < basket for distance in distance_list])
RECURSIVE CountBelow(_, _)
CountBelow(distance_list, basket) ==
  IF distance_list = <<>> THEN 0
  ELSE (IF Head(distance_list) < basket THEN 1 ELSE 0)
       + CountBelow(Tail(distance_list), basket)

\* utils.empirical_cumulative_distribution_vector
empirical_cumulative_distribution_vector(distance_list, bins) ==
  [ d \in 1..Len(bins) |->
      Frac(CountBelow(distance_list, bins[d]), Len(distance_list)) ]

\* objective_function.empirical_cumulative_distribution_vector: the counts
\* are gathered per bin first and divided afterwards.
empirical_cumulative_distribution_vector_obj(distance_list, bins) ==
  LET n_close_elem == [ index \in 1..Len(bins) |-> CountBelow(distance_list, bins[index]) ]
  IN  [ index \in 1..Len(bins) |-> Frac(n_close_elem[index], Len(distance_list)) ]

(***************************************************************************)
(* Distance functions.  The caller supplies distance_fct; three are        *)
(* modelled: the absolute difference, the signed difference a - b (not     *)
(* symmetric) and a vector-valued one that returns a list of two numbers.  *)
(* A nested list of numbers is a sequence of sequences; isinstance(x,      *)
(* list) is decided by the nesting depth, which the distance function      *)
(* fixes: DistDepth is 0 for a number and 1 for a list of numbers.         *)
(***************************************************************************)
DistanceFcts == {"abs", "diff", "vec"}

distance_fct(f, a, b) ==
  CASE f = "abs"  -> Abs(a - b)
    [] f = "diff" -> a - b
    [] f = "vec"  -> <<Abs(a - b), a + b>>

DistDepth(f) == IF f = "vec" THEN 1 ELSE 0

\* A result of a call: no exception and a value, or an exception and no value.
Ok(v) == [raised |-> "none", ret |-> v]
Raise(e) == [raised |-> e, ret |-> "no value"]

OutOfOrder  == "Subset indices are out of order."
NotCovering == "Not all elements of the dataset are distributed into subsets."
InvalidRange == "Invalid subset indices chosen."

\* utils.create_distance_matrix with all four bounds given (0-based, end
\* exclusive): the rows are the elements start_a..end_a-1 of dataset_a.
create_distance_matrix(dataset_a, dataset_b, f, start_a, end_a, start_b, end_b) ==
  IF end_a < start_a \/ end_b < start_b THEN Raise(InvalidRange)
  ELSE IF (end_a > start_a /\ end_b > start_b)
          /\ (end_a > Len(dataset_a) \/ end_b > Len(dataset_b)) THEN Raise("IndexError")
  ELSE Ok([ i \in 1..(end_a - start_a) |->
              [ j \in 1..(end_b - start_b) |->
                  distance_fct(f, dataset_a[start_a + i], dataset_b[start_b + j]) ] ])

\* objective_function.create_distance_matrix: no range check; range() of a
\* negative length is empty.  (The callers never pass the default -1.)
create_distance_matrix_obj(dataset_a, dataset_b, f, start_a, end_a, start_b, end_b) ==
  LET n_a == IF end_a < start_a THEN 0 ELSE end_a - start_a
      n_b == IF end_b < start_b THEN 0 ELSE end_b - start_b
  IN  IF (n_a > 0 /\ n_b > 0)
         /\ (end_a > Len(dataset_a) \/ end_b > Len(dataset_b)) THEN Raise("IndexError")
      ELSE Ok([ i \in 1..n_a |->
                  [ j \in 1..n_b |->
                      distance_fct(f, dataset_a[start_a + i], dataset_b[start_b + j]) ] ])

RECURSIVE Concat(_)
Concat(lists) == IF lists = <<>> THEN <<>> ELSE Head(lists) \o Concat(Tail(lists))

\* while isinstance(distance_list[0], list): flatten one level.
\* depth: how many levels of lists lie between distance_list and the numbers.
\* distance_list[0] of an empty list raises IndexError.
RECURSIVE FlattenFully(_, _)
FlattenFully(distance_list, depth) ==
  IF distance_list = <<>> THEN Raise("IndexError")
  ELSE IF depth > 0 THEN FlattenFully(Concat(distance_list), depth - 1)
  ELSE Ok(distance_list)

\* Mutant of PairLoop: the inner loop runs to i inclusive, so a subset is also
\* compared with itself.
RECURSIVE PairLoop_Self(_, _, _)
PairLoop_Self(i, j, k) ==
  IF i >= k THEN <<>>
  ELSE IF j > i THEN PairLoop_Self(i + 1, 0, k)
  ELSE <<<<i, j>>>> \o PairLoop_Self(i, j + 1, k)

\* The pairs (i, j) in the order of the loops
\*   for i in range(len(subset_indices)-1): for j in range(i):
\* (0-based subset numbers), for k subsets.
RECURSIVE PairLoop(_, _, _)
PairLoop(i, j, k) ==
  IF i >= k THEN <<>>
  ELSE IF j >= i THEN PairLoop(i + 1, 0, k)
  ELSE <<<<i, j>>>> \o PairLoop(i, j + 1, k)

\* np.transpose(matrix) of a list of M vectors of length D: an array of shape
\* (D, M); of the empty list, an array of shape (0,).
Transpose(matrix) ==
  IF matrix = <<>> THEN [shape |-> <<0>>, data |-> <<>>]
  ELSE LET D == Len(matrix[1])
           M == Len(matrix)
       IN  [ shape |-> <<D, M>>,
             data  |-> [ d \in 1..D |-> [ t \in 1..M |-> matrix[t][d] ] ] ]

\* The module's own create_distance_matrix and vectorizer: utils.py ("utils")
\* and objective_function.py ("obj") each define both.
Cdm(impl, dataset_a, dataset_b, f, start_a, end_a, start_b, end_b) ==
  IF impl = "utils"
    THEN create_distance_matrix(dataset_a, dataset_b, f, start_a, end_a, start_b, end_b)
    ELSE create_distance_matrix_obj(dataset_a, dataset_b, f, start_a, end_a, start_b, end_b)

Vec(impl, distance_list, bins) ==
  IF impl = "utils"
    THEN empirical_cumulative_distribution_vector(distance_list, bins)
    ELSE empirical_cumulative_distribution_vector_obj(distance_list, bins)

\* The body of the pair loop of the standard assembler, from the first pair of
\* pairs on: matrix holds the vectors appended so far, n_dist counts the
\* calls of distance_fct made so far.
RECURSIVE AssembleLoop(_, _, _, _, _, _, _, _)
AssembleLoop(impl, dataset, bins, f, si, pairs, matrix, n_dist) ==
  IF pairs = <<>> THEN [raised |-> "none", ret |-> Transpose(matrix), n_dist |-> n_dist]
  ELSE
    LET i  == Head(pairs)[1]
        j  == Head(pairs)[2]
        dm == Cdm(impl, dataset, dataset, f, si[i + 1], si[i + 2], si[j + 1], si[j + 2])
        made == n_dist + (si[i + 2] - si[i + 1]) * (si[j + 2] - si[j + 1])
        flat == FlattenFully(dm.ret, 1 + DistDepth(f))
    IN  IF dm.raised # "none" THEN [raised |-> dm.raised, ret |-> "no value", n_dist |-> n_dist]
        ELSE IF flat.raised # "none"
          THEN [raised |-> flat.raised, ret |-> "no value", n_dist |-> made]
        ELSE AssembleLoop(impl, dataset, bins, f, si, Tail(pairs),
                          Append(matrix, Vec(impl, flat.ret, bins)), made)

NonDecreasing(si) == \A i \in 1..(Len(si) - 1) : si[i] <= si[i + 1]

\* Mutant of Covers: only the first index is checked.
Covers_StartOnly(subset_indices, dataset) == subset_indices[1] = 0

\* not (subset_indices[0] != 0 or subset_indices[-1] != len(dataset))
Covers(subset_indices, dataset) ==
  subset_indices[1] = 0 /\ subset_indices[Len(subset_indices)] = Len(dataset)

\* The standard assembler: the two precondition checks, then the pair loop.
\* subset_indices[0] of an empty list raises IndexError.
Assemble(impl, dataset, bins, f, subset_indices) ==
  IF ~NonDecreasing(subset_indices)
    THEN [raised |-> OutOfOrder, ret |-> "no value", n_dist |-> 0]
  ELSE IF subset_indices = <<>>
    THEN [raised |-> "IndexError", ret |-> "no value", n_dist |-> 0]
  ELSE IF ~Covers(subset_indices, dataset)
    THEN [raised |-> NotCovering, ret |-> "no value", n_dist |-> 0]
  ELSE AssembleLoop(impl, dataset, bins, f, subset_indices,
                    PairLoop(0, 0, Len(subset_indices) - 1), <<>>, 0)

\* utils.empirical_cumulative_distribution_vector_list
empirical_cumulative_distribution_vector_list(dataset, bins, f, subset_indices) ==
  Assemble("utils", dataset, bins, f, subset_indices)

\* objective_function.empirical_cumulative_distribution_vector_list
empirical_cumulative_distribution_vector_list_obj(dataset, bins, f, subset_indices) ==
  Assemble("obj", dataset, bins, f, subset_indices)

(***************************************************************************)
(* Moment Aggregator.  An array is [shape, data]: shape <<>> is a 0-d      *)
(* array (data is the number), <<n>> a vector, <<D, M>> a matrix of D rows.*)
(***************************************************************************)
\* utils/objective_function.mean_of_ecdf_vectors: np.mean of each row.
mean_of_ecdf_vectors(ecdf_vector_list) ==
  IF Len(ecdf_vector_list.shape) = 1 THEN <<>>
  ELSE [ d \in 1..ecdf_vector_list.shape[1] |->
           RDiv(RSum(ecdf_vector_list.data[d]), RInt(ecdf_vector_list.shape[2])) ]

\* np.cov(m) for m of shape (D, M) or (0,): rows are variables, divisor M - 1
\* (a divisor <= 0 is replaced by 0.0 with a warning), result squeezed.
covariance_of_ecdf_vectors(ecdf_vector_list) ==
  IF Len(ecdf_vector_list.shape) = 1 THEN [shape |-> <<>>, data |-> NaN]
  ELSE IF ecdf_vector_list.shape[1] = 0 THEN [shape |-> <<0, 0>>, data |-> <<>>]
  ELSE
    LET D    == ecdf_vector_list.shape[1]
        M    == ecdf_vector_list.shape[2]
        X    == ecdf_vector_list.data
        avg  == [ d \in 1..D |-> RDiv(RSum(X[d]), RInt(M)) ]
        fact == IF M - 1 <= 0 THEN 0 ELSE M - 1
        dev  == [ d \in 1..D |-> [ t \in 1..M |-> RSub(X[d][t], avg[d]) ] ]
        c    == [ a \in 1..D |-> [ b \in 1..D |->
                    RMul(RSum([ t \in 1..M |-> RMul(dev[a][t], dev[b][t]) ]),
                         RDiv(RInt(1), RInt(fact))) ] ]
    IN  IF D = 1 THEN [shape |-> <<>>, data |-> c[1][1]]
        ELSE [shape |-> <<D, D>>, data |-> c]

(***************************************************************************)
(* The standard estimator's constructor.                                   *)
(***************************************************************************)
\* [ sum(subset_sizes[:i]) for i in range(len(subset_sizes)+1) ]
RECURSIVE SumSeq(_)
SumSeq(s) == IF s = <<>> THEN 0 ELSE Head(s) + SumSeq(Tail(s))

CumulativeSums(subset_sizes) ==
  [ i \in 1..(Len(subset_sizes) + 1) |-> SumSeq(SubSeq(subset_sizes, 1, i - 1)) ]

\* objective_function.__init__ (file_output = False): the new object, or the
\* exception of the assembler, in which case no object comes into existence.
objective_function_init(dataset, bins, f, subset_sizes) ==
  LET subset_indices == CumulativeSums(subset_sizes)
      asm == empirical_cumulative_distribution_vector_list_obj(dataset, bins, f, subset_indices)
  IN  IF asm.raised # "none" THEN Raise(asm.raised)
      ELSE Ok([ class          |-> "objective_function",
                type           |-> "standard",
                dataset        |-> dataset,
                bins           |-> bins,
                distance_fct   |-> f,
                subset_indices |-> subset_indices,
                ecdf_list      |-> asm.ret,
                mean_vector    |-> mean_of_ecdf_vectors(asm.ret),
                covar_matrix   |-> covariance_of_ecdf_vectors(asm.ret),
                error_printed  |-> FALSE ])

\* The effect of objective_function(dataset, bins, f, subset_sizes) on the state.
NewObjectiveFunction(dataset, bins, f, subset_sizes) ==
  LET r == objective_function_init(dataset, bins, f, subset_sizes)
  IN  /\ call' = [ op |-> "objective_function", dataset |-> dataset, bins |-> bins,
                   distance_fct |-> f, subset_sizes |-> subset_sizes,
                   raised |-> r.raised, ret |-> r.ret ]
      /\ IF r.raised = "none"
           THEN heap' = Append(heap, r.ret) /\ warnings' = Append(warnings, 0)
           ELSE UNCHANGED <<heap, warnings>>

(***************************************************************************)
(* Direct calls of the standard assembler and of the standard constructor  *)
(* on arguments drawn by the initial state: a dataset 1, 2, ..., n, a bin  *)
(* list, a distance function and an index list (read as subset_indices by  *)
(* the assembler and as subset_sizes by the constructor).                  *)
(***************************************************************************)
MaxData   == 3   \* longest dataset; the indices range over 0..MaxData
MaxIdxLen == 4   \* longest subset_indices / subset_sizes list

Ramp(n) == [ i \in 1..n |-> i ]

AsmBins == { <<>>, <<2>>, <<1, 3>> }

InitAsm ==
  /\ heap = <<>>
  /\ warnings = <<>>
  /\ \E n \in 0..MaxData, bins \in AsmBins, f \in DistanceFcts,
        indices \in SeqsUpTo(0..MaxData, MaxIdxLen) :
       call = [ op |-> "pending", dataset |-> Ramp(n), bins |-> bins,
                distance_fct |-> f, indices |-> indices ]

\* A direct call of the standard assembler of utils.py.
CallAssemble ==
  /\ call.op = "pending"
  /\ LET r == empirical_cumulative_distribution_vector_list(
                 call.dataset, call.bins, call.distance_fct, call.indices)
     IN  call' = [ op |-> "assemble", impl |-> "utils", dataset |-> call.dataset,
                   bins |-> call.bins, distance_fct |-> call.distance_fct,
                   subset_indices |-> call.indices,
                   raised |-> r.raised, ret |-> r.ret, n_dist |-> r.n_dist ]
  /\ UNCHANGED <<heap, warnings>>

\* A direct call of the standard assembler of objective_function.py.
CallAssembleObj ==
  /\ call.op = "pending"
  /\ LET r == empirical_cumulative_distribution_vector_list_obj(
                 call.dataset, call.bins, call.distance_fct, call.indices)
     IN  call' = [ op |-> "assemble", impl |-> "obj", dataset |-> call.dataset,
                   bins |-> call.bins, distance_fct |-> call.distance_fct,
                   subset_indices |-> call.indices,
                   raised |-> r.raised, ret |-> r.ret, n_dist |-> r.n_dist ]
  /\ UNCHANGED <<heap, warnings>>

\* objective_function(dataset, bins, distance_fct, subset_sizes) on the drawn
\* arguments.
ConstructStandard ==
  /\ call.op = "pending"
  /\ NewObjectiveFunction(call.dataset, call.bins, call.distance_fct, call.indices)

NextAsm == CallAssemble \/ CallAssembleObj \/ ConstructStandard

SpecAsm == InitAsm /\ [][NextAsm]_vars

IsAssembleCall == call.op = "assemble"

\* The claims' own reading of "non-decreasing" and of "starts at 0 and ends at
\* len(dataset)".
IsSorted(si) == \A i \in 1..Len(si), j \in 1..Len(si) : i < j => si[i] <= si[j]
IsCovering(si, dataset) == Head(si) = 0 /\ si[Len(si)] = Len(dataset)

\* The subset_indices the last assembler run was given: the argument of a
\* direct call, the cumulative sums of subset_sizes in the constructor.
GivenIndices ==
  IF call.op = "assemble" THEN call.subset_indices ELSE CumulativeSums(call.subset_sizes)

RanAssembler == call.op \in {"assemble", "objective_function"}

\* The numbers one distance contributes to the flattened distance list.
Components(f, a, b) ==
  IF DistDepth(f) = 0 THEN <<distance_fct(f, a, b)>> ELSE distance_fct(f, a, b)

\* The ECDF vector of the distances between subset i and subset j (0-based) of
\* the call's dataset, counted over the set of (element, element, component).
PairEcdf(i, j) ==
  LET si == call.subset_indices
      Si == (si[i + 1] + 1)..si[i + 2]
      Sj == (si[j + 1] + 1)..si[j + 2]
      nc == 1 + DistDepth(call.distance_fct)
      all == Si \X Sj \X (1..nc)
  IN  [ d \in 1..Len(call.bins) |->
          Frac(Cardinality({ x \in all :
                 Components(call.distance_fct, call.dataset[x[1]], call.dataset[x[2]])[x[3]]
                   < call.bins[d] }),
               Cardinality(all)) ]

\* The pair at 1-based column t of the enumeration (1,0), (2,0), (2,1), (3,0), ...
PairAt(t, k) ==
  CHOOSE p \in (0..(k - 1)) \X (0..(k - 1)) :
    p[2] < p[1] /\ (p[1] * (p[1] - 1)) \div 2 + p[2] = t - 1

NCols(array) == IF Len(array.shape) = 2 THEN array.shape[2] ELSE 0

\* C4: on a valid partition into k non-empty subsets the standard assembler
\* returns k*(k-1)/2 columns (an empty array when there is no pair), and column
\* t is the ECDF vector of the t-th pair of (1,0), (2,0), (2,1), (3,0), ...
C4_PairColumns ==
  (/\ IsAssembleCall
   /\ call.subset_indices # <<>>
   /\ IsSorted(call.subset_indices)
   /\ IsCovering(call.subset_indices, call.dataset)
   /\ \A i \in 1..(Len(call.subset_indices) - 1) :
        call.subset_indices[i] < call.subset_indices[i + 1]) =>
    LET k == Len(call.subset_indices) - 1
        M == (k * (k - 1)) \div 2
    IN  /\ call.raised = "none"
        /\ NCols(call.ret) = M
        /\ M > 0 => call.ret.shape = <<Len(call.bins), M>>
        /\ \A t \in 1..M : \A d \in 1..Len(call.bins) :
             call.ret.data[d][t] = PairEcdf(PairAt(t, k)[1], PairAt(t, k)[2])[d]

\* C4 witness: three non-empty subsets were assembled into three columns.
C4_Witness ==
  /\ IsAssembleCall
  /\ call.subset_indices = <<0, 1, 2, 3>>
  /\ call.bins = <<2>>
  /\ call.distance_fct = "abs"
  /\ call.raised = "none"
  /\ call.ret.shape = <<1, 3>>
  /\ call.ret.data = << <<RInt(1), RInt(0), RInt(1)>> >>

C7_EmptySubsetAccepted ==
  (/\ IsAssembleCall
   /\ call.subset_indices # <<>>
   /\ call.dataset # <<>>
   /\ IsSorted(call.subset_indices)
   /\ IsCovering(call.subset_indices, call.dataset)
   /\ \E i \in 1..(Len(call.subset_indices) - 1) :
        call.subset_indices[i] = call.subset_indices[i + 1]) =>
    call.raised = "none"

(***************************************************************************)
(* The bootstrap assembler of utils.py, one loop iteration per step: each  *)
(* iteration draws its two index vectors from np.random.                   *)
(***************************************************************************)
MaxBoot    == 3   \* largest len(dataset_a), len(dataset_b) of a bootstrap call
MaxSamples == 2   \* largest n_samples of a bootstrap call

\* distance_matrix[permute_a, permute_b], flattened.  Two index vectors are
\* broadcast against each other: equal lengths pair positionally, a vector of
\* length 1 is repeated, any other two lengths raise IndexError.
FancyIndex(distance_matrix, depth, permute_a, permute_b) ==
  LET A == Len(permute_a)
      B == Len(permute_b)
      n == IF A >= B THEN A ELSE B
      picked == [ t \in 1..n |->
                   distance_matrix[permute_a[IF A = 1 THEN 1 ELSE t]]
                                  [permute_b[IF B = 1 THEN 1 ELSE t]] ]
  IN  IF A # B /\ A # 1 /\ B # 1 THEN Raise("IndexError")
      ELSE Ok(IF depth = 0 THEN picked ELSE Concat(picked))

BootBins == { <<2>>, <<1, 3>> }

InitBoot ==
  /\ heap = <<>>
  /\ warnings = <<>>
  /\ \E A \in 1..MaxBoot, B \in 1..MaxBoot, bins \in BootBins, f \in DistanceFcts,
        n_samples \in 0..MaxSamples :
       call = [ op |-> "pending", dataset_a |-> Ramp(A), dataset_b |-> Ramp(B),
                bins |-> bins, distance_fct |-> f, n_samples |-> n_samples ]

\* utils.empirical_cumulative_distribution_vector_list_bootstrap is entered:
\* the full distance matrix is built and the loop begins.
BootstrapEnter ==
  /\ call.op = "pending"
  /\ call' = [ op |-> "bootstrap_loop", impl |-> "utils",
               dataset_a |-> call.dataset_a, dataset_b |-> call.dataset_b,
               bins |-> call.bins, distance_fct |-> call.distance_fct,
               n_samples |-> call.n_samples,
               distance_matrix |->
                 create_distance_matrix(call.dataset_a, call.dataset_b, call.distance_fct,
                   0, Len(call.dataset_a), 0, Len(call.dataset_b)).ret,
               matrix |-> <<>> ]
  /\ UNCHANGED <<heap, warnings>>

\* One iteration of the loop: two index vectors are drawn, the resample is
\* vectorized and appended; an IndexError of the indexing ends the call.
BootstrapSample ==
  /\ call.op = "bootstrap_loop"
  /\ Len(call.matrix) < call.n_samples
  /\ LET A == Len(call.dataset_a)
         B == Len(call.dataset_b)
     IN  \E permute_a \in [1..A -> 1..A], permute_b \in [1..B -> 1..B] :
           LET distance_list == FancyIndex(call.distance_matrix,
                                  DistDepth(call.distance_fct), permute_a, permute_b)
           IN  IF distance_list.raised # "none"
                 THEN call' = [ op |-> "bootstrap_assemble", impl |-> "utils",
                                dataset_a |-> call.dataset_a, dataset_b |-> call.dataset_b,
                                bins |-> call.bins, n_samples |-> call.n_samples,
                                raised |-> distance_list.raised, ret |-> "no value" ]
                 ELSE call' = [ call EXCEPT !.matrix = Append(@,
                                  empirical_cumulative_distribution_vector(
                                    distance_list.ret, call.bins)) ]
  /\ UNCHANGED <<heap, warnings>>

\* The loop has run n_samples times: np.transpose(matrix) is returned.
BootstrapReturn ==
  /\ call.op = "bootstrap_loop"
  /\ Len(call.matrix) = call.n_samples
  /\ call' = [ op |-> "bootstrap_assemble", impl |-> "utils",
               dataset_a |-> call.dataset_a, dataset_b |-> call.dataset_b,
               bins |-> call.bins, n_samples |-> call.n_samples,
               raised |-> "none", ret |-> Transpose(call.matrix) ]
  /\ UNCHANGED <<heap, warnings>>

\* objective_function.empirical_cumulative_distribution_vector_list_bootstrap:
\* distance_matrix is the nested list create_distance_matrix returns, and the
\* first iteration reads distance_matrix.shape, which a list does not have.
empirical_cumulative_distribution_vector_list_bootstrap_obj(dataset_a, dataset_b, bins, f, n_samples) ==
  IF n_samples > 0 THEN Raise("AttributeError") ELSE Ok(Transpose(<<>>))

\* A direct call of the bootstrap assembler of objective_function.py.
CallBootstrapObj ==
  /\ call.op = "pending"
  /\ LET r == empirical_cumulative_distribution_vector_list_bootstrap_obj(
                 call.dataset_a, call.dataset_b, call.bins, call.distance_fct, call.n_samples)
     IN  call' = [ op |-> "bootstrap_assemble", impl |-> "obj",
                   dataset_a |-> call.dataset_a, dataset_b |-> call.dataset_b,
                   bins |-> call.bins, n_samples |-> call.n_samples,
                   raised |-> r.raised, ret |-> r.ret ]
  /\ UNCHANGED <<heap, warnings>>

NextBoot == BootstrapEnter \/ BootstrapSample \/ BootstrapReturn \/ CallBootstrapObj

SpecBoot == InitBoot /\ [][NextBoot]_vars

\* C9: a bootstrap assembler call with n_samples = N on datasets of sizes
\* A >= 1 and B >= 1 ends without an exception and returns N columns.
C9_BootstrapColumns ==
  (call.op = "bootstrap_assemble" /\ call.impl = "utils") =>
    /\ call.raised = "none"
    /\ NCols(call.ret) = call.n_samples

(***************************************************************************)
(* Linear algebra on exact fractions.                                      *)
(***************************************************************************)
RECURSIVE Det(_)
\* The determinant of a square matrix (a sequence of rows), by expansion along
\* the first row.
Det(m) ==
  IF Len(m) = 0 THEN RInt(1)
  ELSE IF Len(m) = 1 THEN m[1][1]
  ELSE LET n == Len(m)
           minor(c) == [ r \in 1..(n - 1) |->
                         [ k \in 1..(n - 1) |-> m[r + 1][IF k < c THEN k ELSE k + 1] ] ]
           term(c) == RMul(IF c % 2 = 1 THEN m[1][c] ELSE RNeg(m[1][c]), Det(minor(c)))
       IN  RSum([ c \in 1..n |-> term(c) ])

HasNaN(m) == \E r \in 1..Len(m) : \E c \in 1..Len(m[r]) : ~IsFinite(m[r][c])

\* np.dot of two vectors of one length
Dot(a, b) == RSum([ i \in 1..Len(a) |-> RMul(a[i], b[i]) ])

\* The solution of a . x = b for non-singular a (Cramer's rule).
CramerSolve(a, b) ==
  LET n == Len(a)
      repl(c) == [ r \in 1..n |-> [ k \in 1..n |-> IF k = c THEN b[r] ELSE a[r][k] ] ]
  IN  [ c \in 1..n |-> RDiv(Det(repl(c)), Det(a)) ]

\* np.linalg.solve(a, b) for an array a and a vector b: LinAlgError for an
\* array of fewer than two dimensions and for a singular matrix, ValueError
\* for a vector of the wrong length; a matrix holding nan solves to nan.
LinalgSolve(a, b) ==
  IF Len(a.shape) < 2 THEN Raise("LinAlgError")
  ELSE IF Len(b) # a.shape[1] THEN Raise("ValueError")
  ELSE IF a.shape[1] = 0 THEN Ok(<<>>)
  ELSE IF HasNaN(a.data) THEN Ok([ i \in 1..Len(b) |-> NaN ])
  ELSE IF Det(a.data) = RInt(0) THEN Raise("LinAlgError")
  ELSE Ok(CramerSolve(a.data, b))

\* np.subtract(x, y) of two vectors: equal lengths, or a length of 1, which is
\* broadcast; other lengths raise ValueError.
NpSubtract(x, y) ==
  LET n == IF Len(x) = 1 THEN Len(y) ELSE Len(x)
  IN  IF Len(x) # Len(y) /\ Len(x) # 1 /\ Len(y) # 1 THEN Raise("ValueError")
      ELSE Ok([ i \in 1..n |-> RSub(x[IF Len(x) = 1 THEN 1 ELSE i],
                                    y[IF Len(y) = 1 THEN 1 ELSE i]) ])

(***************************************************************************)
(* Objective Evaluator.  A result is [raised, ret, error_printed, printed]:*)
(* the exception, the score, the object's flag afterwards and whether the  *)
(* warning was printed.  An object of class multiple_objectives has no     *)
(* attribute error_printed: reading it raises AttributeError.              *)
(***************************************************************************)
HasFlag(obj) == "error_printed" \in DOMAIN obj

EvalResult(raised, ret, flag, printed) ==
  [raised |-> raised, ret |-> ret, error_printed |-> flag, printed |-> printed]

FlagOf(obj) == IF HasFlag(obj) THEN obj.error_printed ELSE "no attribute"

\* objective_function._evaluate_from_empirical_cumulative_distribution_functions
evaluate_from_ecdf_obj(obj_fun, vector) ==
  LET md == NpSubtract(obj_fun.mean_vector, vector)
      x  == LinalgSolve(obj_fun.covar_matrix, md.ret)
  IN  IF md.raised # "none" THEN EvalResult(md.raised, "no value", FlagOf(obj_fun), 0)
      ELSE IF x.raised = "none"
        THEN EvalResult("none", Dot(md.ret, x.ret), FlagOf(obj_fun), 0)
      ELSE IF x.raised # "LinAlgError"
        THEN EvalResult(x.raised, "no value", FlagOf(obj_fun), 0)
      ELSE IF ~HasFlag(obj_fun)
        THEN EvalResult("AttributeError", "no value", FlagOf(obj_fun), 0)
      ELSE IF ~obj_fun.error_printed
        THEN EvalResult("none", Dot(md.ret, md.ret), TRUE, 1)
      ELSE EvalResult("none", Dot(md.ret, md.ret), TRUE, 0)

\* utils.evaluate_from_empirical_cumulative_distribution_functions
evaluate_from_ecdf_utils(estimator, vector) ==
  LET md == NpSubtract(estimator.mean_vector, vector)
      x  == LinalgSolve(estimator.covar_matrix, md.ret)
  IN  IF md.raised # "none" THEN EvalResult(md.raised, "no value", FlagOf(estimator), 0)
      ELSE IF ~HasFlag(estimator)
        THEN EvalResult("AttributeError", "no value", FlagOf(estimator), 0)
      ELSE IF ~estimator.error_printed
        THEN IF x.raised = "none"
               THEN EvalResult("none", Dot(md.ret, x.ret), FALSE, 0)
             ELSE IF x.raised # "LinAlgError"
               THEN EvalResult(x.raised, "no value", FALSE, 0)
             ELSE EvalResult("none", Dot(md.ret, md.ret), TRUE, 1)
      ELSE EvalResult("none", Dot(md.ret, md.ret), TRUE, 0)

Evaluator(impl, obj, vector) ==
  IF impl = "utils" THEN evaluate_from_ecdf_utils(obj, vector)
  ELSE evaluate_from_ecdf_obj(obj, vector)

\* Mutant of StoreFlag: the evaluator also overwrites the mean vector.
StoreFlag_Mean(obj, res) ==
  IF HasFlag(obj)
    THEN [obj EXCEPT !.error_printed = res.error_printed,
                     !.mean_vector = [ d \in DOMAIN obj.mean_vector |-> RInt(0) ]]
    ELSE obj

\* The object after an evaluator run: only error_printed is assigned.
StoreFlag(obj, res) ==
  IF HasFlag(obj) THEN [obj EXCEPT !.error_printed = res.error_printed] ELSE obj

(***************************************************************************)
(* Re-binning: _choose_bins with the default shifts and file_output=False. *)
(***************************************************************************)
RMaxOf(v) == CHOOSE x \in { v[i] : i \in 1..Len(v) } : \A i \in 1..Len(v) : RLeq(v[i], x)
RMinOf(v) == CHOOSE x \in { v[i] : i \in 1..Len(v) } : \A i \in 1..Len(v) : RLeq(x, v[i])

\* np.argmax / np.argmin of a vector: the first position (0-based) of the extreme
ArgMax(v) == (CHOOSE i \in 1..Len(v) : v[i] = RMaxOf(v) /\ \A j \in 1..(i - 1) : v[j] # v[i]) - 1
ArgMin(v) == (CHOOSE i \in 1..Len(v) : v[i] = RMinOf(v) /\ \A j \in 1..(i - 1) : v[j] # v[i]) - 1

\* np.argmax(v >= bdr): the first position (0-based) with v >= bdr, 0 if none
ArgMaxGeq(v, bdr) ==
  IF \E i \in 1..Len(v) : RLeq(bdr, v[i])
    THEN (CHOOSE i \in 1..Len(v) :
            RLeq(bdr, v[i]) /\ \A j \in 1..(i - 1) : ~RLeq(bdr, v[j])) - 1
    ELSE 0

\* np.linspace(start, stop, num=n) for n >= 1
Linspace(start, stop, n) ==
  [ k \in 1..n |->
      IF n = 1 THEN start
      ELSE RAdd(start, RMul(RInt(k - 1), RDiv(RSub(stop, start), RInt(n - 1)))) ]

\* np.unique: the distinct values in ascending order
RECURSIVE SortedSeq(_)
SortedSeq(S) ==
  IF S = {} THEN <<>>
  ELSE LET least == CHOOSE x \in S : \A y \in S : RLeq(x, y)
       IN  <<least>> \o SortedSeq(S \ {least})

Unique(v) == SortedSeq({ v[i] : i \in 1..Len(v) })

\* int(x): truncation towards zero
Trunc(x) == IF x[1] >= 0 THEN x[1] \div x[2] ELSE -((-x[1]) \div x[2])

\* The bins chosen by choose_type "uniform_y": [ bins[i] for i in unique_indices ]
ChooseUniformY(mean_vector, bins, n_bins) ==
  LET max_value == RMaxOf(mean_vector)
      min_value == RMinOf(mean_vector)
      min_value_shift == RDiv(RSub(max_value, min_value), RInt(n_bins))
      max_value_shift == RDiv(RSub(min_value, max_value), RInt(n_bins))
      rad_bdr == Linspace(RAdd(min_value, min_value_shift),
                          RAdd(max_value, max_value_shift), n_bins)
      indices == [ k \in 1..n_bins |-> RInt(ArgMaxGeq(mean_vector, rad_bdr[k])) ]
      unique_indices == Unique(indices)
  IN  IF \E k \in 1..Len(unique_indices) : unique_indices[k][1] >= Len(bins)
        THEN Raise("IndexError")
        ELSE Ok([ k \in 1..Len(unique_indices) |-> bins[unique_indices[k][1] + 1] ])

\* The bins chosen by choose_type "uniform_x": [ bins[int(i)] for i in unique_indices ];
\* a negative int(i) counts from the end of the list.
ChooseUniformX(mean_vector, bins, n_bins) ==
  LET max_index == ArgMin(mean_vector)
      min_index == ArgMax(mean_vector)
      min_value_shift == RDiv(RInt(max_index - min_index), RInt(n_bins))
      max_value_shift == RDiv(RInt(min_index - max_index), RInt(n_bins))
      indices == Linspace(RAdd(RInt(min_index), min_value_shift),
                          RAdd(RInt(max_index), max_value_shift), n_bins)
      unique_indices == Unique(indices)
      at(k) == LET t == Trunc(unique_indices[k]) IN IF t < 0 THEN t + Len(bins) ELSE t
  IN  IF \E k \in 1..Len(unique_indices) : at(k) < 0 \/ at(k) >= Len(bins)
        THEN Raise("IndexError")
        ELSE Ok([ k \in 1..Len(unique_indices) |-> bins[at(k) + 1] ])

\* np.linalg.cond(covar_matrix) raises LinAlgError for an array of fewer than two
\* dimensions and for an empty matrix; on a matrix holding nan the SVD of some
\* builds raises LinAlgError and of others returns nan (svd_fails).
CondRaises(covar_matrix, svd_fails) ==
  \/ Len(covar_matrix.shape) < 2
  \/ covar_matrix.shape[1] = 0
  \/ (HasNaN(covar_matrix.data) /\ svd_fails)

ChooseTypes == {"uniform_y", "uniform_x", "other"}

\* The assembler _choose_bins runs for the object's type.
Reassemble(obj_fun) ==
  IF obj_fun.type = "standard"
    THEN empirical_cumulative_distribution_vector_list_obj(
           obj_fun.dataset, obj_fun.bins, obj_fun.distance_fct, obj_fun.subset_indices)
    ELSE empirical_cumulative_distribution_vector_list_bootstrap_obj(
           obj_fun.dataset_a, obj_fun.dataset_b, obj_fun.bins, obj_fun.distance_fct,
           obj_fun.n_samples)

\* obj_fun.ecdf_list, obj_fun.mean_vector and obj_fun.covar_matrix re-derived
Rederived(obj_fun, ecdf_list) ==
  [obj_fun EXCEPT !.ecdf_list = ecdf_list,
                  !.mean_vector = mean_of_ecdf_vectors(ecdf_list),
                  !.covar_matrix = covariance_of_ecdf_vectors(ecdf_list)]

\* The end of _choose_bins: the spectral condition of the new covariance.
CheckedCondition(obj_fun, check_spectral_conditon, svd_fails) ==
  IF check_spectral_conditon /\ CondRaises(obj_fun.covar_matrix, svd_fails)
    THEN [raised |-> "LinAlgError", obj |-> obj_fun]
    ELSE [raised |-> "none", obj |-> obj_fun]

\* _choose_bins from the assignment of obj_fun.bins on: obj_fun has the new
\* bins, asm is the assembler's result for them.
Rebinned(obj_fun, asm, check_spectral_conditon, svd_fails) ==
  IF asm.raised # "none" THEN [raised |-> asm.raised, obj |-> obj_fun]
  ELSE CheckedCondition(Rederived(obj_fun, asm.ret), check_spectral_conditon, svd_fails)

WithBins(obj_fun, chosen, check_spectral_conditon, svd_fails) ==
  IF chosen.raised # "none" THEN [raised |-> chosen.raised, obj |-> obj_fun]
  ELSE Rebinned([obj_fun EXCEPT !.bins = chosen.ret],
                Reassemble([obj_fun EXCEPT !.bins = chosen.ret]),
                check_spectral_conditon, svd_fails)

\* _choose_bins(obj_fun, n_bins, choose_type=..., check_spectral_conditon=...):
\* [raised, obj]: the exception and the object as the call leaves it.  The fields
\* are assigned one after the other, so an exception leaves the earlier
\* assignments in place.
choose_bins(obj_fun, n_bins, choose_type, check_spectral_conditon, svd_fails) ==
  IF choose_type = "other" THEN [raised |-> "none", obj |-> obj_fun]
  ELSE IF obj_fun.mean_vector = <<>> THEN [raised |-> "ValueError", obj |-> obj_fun]
  ELSE IF choose_type = "uniform_y"
    THEN WithBins(obj_fun, ChooseUniformY(obj_fun.mean_vector, obj_fun.bins, n_bins),
                  check_spectral_conditon, svd_fails)
    ELSE WithBins(obj_fun, ChooseUniformX(obj_fun.mean_vector, obj_fun.bins, n_bins),
                  check_spectral_conditon, svd_fails)

(***************************************************************************)
(* The bootstrap and the multiple estimator.                               *)
(***************************************************************************)
\* bootstrap_objective_function.__init__ (file_output = False)
bootstrap_objective_function_init(dataset_a, dataset_b, bins, f, n_samples) ==
  LET asm == empirical_cumulative_distribution_vector_list_bootstrap_obj(
               dataset_a, dataset_b, bins, f, n_samples)
  IN  IF asm.raised # "none" THEN Raise(asm.raised)
      ELSE Ok([ class         |-> "bootstrap_objective_function",
                type          |-> "bootstrap",
                dataset_a     |-> dataset_a,
                dataset_b     |-> dataset_b,
                bins          |-> bins,
                distance_fct  |-> f,
                n_samples     |-> n_samples,
                ecdf_list     |-> asm.ret,
                mean_vector   |-> mean_of_ecdf_vectors(asm.ret),
                covar_matrix  |-> covariance_of_ecdf_vectors(asm.ret),
                error_printed |-> FALSE ])

\* The rows of the members' ECDF matrices, one below the other; a member with a
\* single column is broadcast to n_columns by the slice assignment.
RECURSIVE StackRows(_, _, _)
StackRows(h, obj_fun_list, n_columns) ==
  IF obj_fun_list = <<>> THEN <<>>
  ELSE LET e == h[Head(obj_fun_list)].ecdf_list
       IN  [ d \in 1..e.shape[1] |->
               [ t \in 1..n_columns |-> e.data[d][IF e.shape[2] = 1 THEN 1 ELSE t] ] ]
           \o StackRows(h, Tail(obj_fun_list), n_columns)

\* multiple_objectives.__init__: the members are objects of the heap h.
\* [raised, ret, mismatch]: mismatch tells whether the ERROR line was printed.
multiple_objectives_init(h, obj_fun_list, check_spectral_conditon, svd_fails) ==
  LET shapes == [ m \in 1..Len(obj_fun_list) |-> h[obj_fun_list[m]].ecdf_list.shape ]
      n_columns == shapes[1][2]
      mismatch == \E m \in 1..Len(shapes) : shapes[m][2] # n_columns
      ecdf_list == LET rows == StackRows(h, obj_fun_list, n_columns)
                   IN  [shape |-> <<Len(rows), n_columns>>, data |-> rows]
      covar == covariance_of_ecdf_vectors(ecdf_list)
      fail(e, mm) == [raised |-> e, ret |-> "no value", mismatch |-> mm]
  IN  IF \E m \in 1..Len(shapes) : Len(shapes[m]) < 2 THEN
        fail("IndexError",
             \E m \in 1..Len(shapes) :
               /\ \A q \in 1..m : Len(shapes[q]) = 2
               /\ shapes[m][2] # n_columns)
      ELSE IF obj_fun_list = <<>> THEN fail("ValueError", FALSE)
      ELSE IF \E m \in 1..Len(shapes) : shapes[m][2] # n_columns /\ shapes[m][2] # 1
        THEN fail("ValueError", mismatch)
      ELSE IF check_spectral_conditon /\ CondRaises(covar, svd_fails)
        THEN fail("LinAlgError", mismatch)
      ELSE [ raised |-> "none", mismatch |-> mismatch,
             ret |-> [ class        |-> "multiple_objectives",
                       obj_fun_list |-> obj_fun_list,
                       ecdf_list    |-> ecdf_list,
                       mean_vector  |-> mean_of_ecdf_vectors(ecdf_list),
                       covar_matrix |-> covar ] ]

(***************************************************************************)
(* evaluate(dataset).  The run works on the heap h and the warning counts  *)
(* w; picks are the values np.random.randint returns, in the order drawn.  *)
(* A run is [heap, warnings, raised, ret, picks].                          *)
(***************************************************************************)
NoCall == [op |-> "none"]

Run(h, w, raised, ret, picks) ==
  [heap |-> h, warnings |-> w, raised |-> raised, ret |-> ret, picks |-> picks]

\* objective_function.evaluate with comparison_set = c: the evaluator's result
\* for the ECDF vector of the distances between subset c and the dataset.
standard_evaluate(obj, dataset, c) ==
  LET si   == obj.subset_indices
      dm   == create_distance_matrix_obj(obj.dataset, dataset, obj.distance_fct,
                si[c + 1], si[c + 2], 0, Len(dataset))
      flat == FlattenFully(dm.ret, 1 + DistDepth(obj.distance_fct))
      y    == empirical_cumulative_distribution_vector_obj(flat.ret, obj.bins)
  IN  IF dm.raised # "none" THEN EvalResult(dm.raised, "no value", FlagOf(obj), 0)
      ELSE IF flat.raised # "none" THEN EvalResult(flat.raised, "no value", FlagOf(obj), 0)
      ELSE evaluate_from_ecdf_obj(obj, y)

\* obj.evaluate(dataset) for the objects of the work list todo, in order; the
\* entry 0 marks the end of a multiple estimator's member list, where
\* multiple_objectives.evaluate looks up the module-level name
\* evaluate_from_empirical_cumulative_distribution_functions, which
\* objective_function.py does not define: NameError.
\*  - standard: np.random.randint(k) raises ValueError for k = 0 subsets.
\*  - bootstrap: np.ndarray.flatten is applied to a nested list: TypeError.
\*  - multiple: its members are evaluated in turn, then the name is looked up.
RECURSIVE EvaluateList(_, _, _, _, _, _)
EvaluateList(h, w, todo, dataset, picks, last) ==
  IF todo = <<>> THEN Run(h, w, "none", last, picks)
  ELSE IF Head(todo) = 0 THEN Run(h, w, "NameError", "no value", picks)
  ELSE
    LET o   == Head(todo)
        obj == h[o]
    IN  IF obj.class = "objective_function" THEN
          LET k == Len(obj.subset_indices) - 1
          IN  IF k <= 0 THEN Run(h, w, "ValueError", "no value", picks)
              ELSE LET res == standard_evaluate(obj, dataset, Head(picks) % k)
                       h2  == [h EXCEPT ![o] = StoreFlag(obj, res)]
                       w2  == [w EXCEPT ![o] = @ + res.printed]
                   IN  IF res.raised # "none"
                         THEN Run(h2, w2, res.raised, "no value", Tail(picks))
                         ELSE EvaluateList(h2, w2, Tail(todo), dataset, Tail(picks), res.ret)
        ELSE IF obj.class = "bootstrap_objective_function" THEN
          Run(h, w, "TypeError", "no value", picks)
        ELSE EvaluateList(h, w, obj.obj_fun_list \o <<0>> \o Tail(todo), dataset, picks, last)

\* obj.evaluate(dataset) for the object at position o.
EvaluateObject(h, w, o, dataset, picks) == EvaluateList(h, w, <<o>>, dataset, picks, "no value")

\* How many values one evaluate call draws at most, and the largest number of
\* subsets among the objects.
RECURSIVE NPicks(_, _)
NPicks(h, o) ==
  IF h[o].class = "objective_function" THEN 1
  ELSE IF h[o].class = "bootstrap_objective_function" THEN 0
  ELSE SumSeq([ m \in 1..Len(h[o].obj_fun_list) |-> NPicks(h, h[o].obj_fun_list[m]) ])

MaxSubsets(h) ==
  LET ks == { Len(h[o].subset_indices) - 1 :
                o \in { q \in 1..Len(h) : h[q].class = "objective_function" } } \cup {1}
  IN  CHOOSE k \in ks : \A x \in ks : x <= k

(***************************************************************************)
(* The life of one standard or bootstrap estimator: construction, then     *)
(* evaluations and re-binnings in any order.  A call leaves its outcome in *)
(* call until the caller has taken it (Return).                            *)
(***************************************************************************)
MaxNBins == 3   \* largest n_bins of a re-binning

\* The standard estimators constructed: dataset, bins, subset_sizes
\* (distance: absolute difference).
StandardConfigs ==
  { [dataset |-> <<0, 1, 3>>, bins |-> <<2, 3>>,    subset_sizes |-> <<1, 1, 1>>],
    [dataset |-> <<1, 2, 3>>, bins |-> <<2, 3>>,    subset_sizes |-> <<1, 1, 1>>],
    [dataset |-> <<0, 1, 3>>, bins |-> <<1, 2, 3>>, subset_sizes |-> <<1, 1, 1>>],
    [dataset |-> <<0, 1, 3>>, bins |-> <<2, 3>>,    subset_sizes |-> <<1, 2>>],
    [dataset |-> <<0, 1, 3>>, bins |-> <<2, 3>>,    subset_sizes |-> <<1, 1>>],
    [dataset |-> <<0, 1, 3, 4, 5, 6>>, bins |-> <<2, 3>>, subset_sizes |-> <<1, 2, 3>>],
    [dataset |-> <<>>,        bins |-> <<2, 3>>,    subset_sizes |-> <<>>] }

\* The ECDF vectors and the datasets handed to the evaluations.
EvalVectors == { <<RInt(0), RInt(1)>>, <<Frac(1, 2), RInt(1)>>, <<RInt(0), RInt(0), RInt(1)>>,
                 <<RInt(1)>> }
EvalDatasets == { <<>>, <<2>>, <<0, 4>> }

Idle == call.op = "none"

Init ==
  /\ heap = <<>>
  /\ warnings = <<>>
  /\ call = NoCall

\* The caller takes the outcome of the last call.
Return ==
  /\ ~Idle
  /\ call.op # "pending"
  /\ call' = NoCall
  /\ UNCHANGED <<heap, warnings>>

\* objective_function(dataset, bins, distance_fct, subset_sizes)
NewStandard ==
  /\ Idle
  /\ heap = <<>>
  /\ \E cfg \in StandardConfigs :
       NewObjectiveFunction(cfg.dataset, cfg.bins, "abs", cfg.subset_sizes)

\* bootstrap_objective_function(dataset_a, dataset_b, bins, distance_fct, n_samples)
NewBootstrap ==
  /\ Idle
  /\ heap = <<>>
  /\ \E n_samples \in 0..1 :
       LET r == bootstrap_objective_function_init(<<0, 1>>, <<1, 3>>, <<2, 3>>, "abs", n_samples)
       IN  /\ call' = [ op |-> "bootstrap_objective_function", n_samples |-> n_samples,
                        raised |-> r.raised, ret |-> r.ret ]
           /\ IF r.raised = "none"
                THEN heap' = Append(heap, r.ret) /\ warnings' = Append(warnings, 0)
                ELSE UNCHANGED <<heap, warnings>>

\* obj.evaluate_from_empirical_cumulative_distribution_functions(vector) ("obj")
\* and utils.evaluate_from_empirical_cumulative_distribution_functions(obj, vector)
EvaluateVector ==
  /\ Idle
  /\ \E o \in 1..Len(heap), vector \in EvalVectors, impl \in {"obj", "utils"} :
       LET res == Evaluator(impl, heap[o], vector)
       IN  /\ call' = [ op |-> "evaluate_vector", impl |-> impl, obj |-> o, vector |-> vector,
                        flag_before |-> FlagOf(heap[o]),
                        raised |-> res.raised, ret |-> res.ret ]
           /\ heap' = [heap EXCEPT ![o] = StoreFlag(@, res)]
           /\ warnings' = [warnings EXCEPT ![o] = @ + res.printed]

\* obj.evaluate(dataset), also reached through utils.evaluate(obj, dataset)
Evaluate ==
  /\ Idle
  /\ \E o \in 1..Len(heap), dataset \in EvalDatasets :
       \E picks \in [1..NPicks(heap, o) -> 0..(MaxSubsets(heap) - 1)] :
         LET run == EvaluateObject(heap, warnings, o, dataset, picks)
         IN  /\ call' = [ op |-> "evaluate", obj |-> o, dataset |-> dataset,
                          flag_before |-> FlagOf(heap[o]),
                          raised |-> run.raised, ret |-> run.ret ]
             /\ heap' = run.heap
             /\ warnings' = run.warnings

\* obj.choose_bins(n_bins, choose_type=..., check_spectral_conditon=...) of a
\* standard or bootstrap estimator (a multiple estimator has no such method)
ChooseBins ==
  /\ Idle
  /\ \E o \in { q \in 1..Len(heap) : "type" \in DOMAIN heap[q] },
        n_bins \in 1..MaxNBins, choose_type \in ChooseTypes,
        check_spectral_conditon \in BOOLEAN, svd_fails \in BOOLEAN :
       LET r == choose_bins(heap[o], n_bins, choose_type, check_spectral_conditon, svd_fails)
       IN  /\ call' = [ op |-> "choose_bins", obj |-> o, n_bins |-> n_bins,
                        choose_type |-> choose_type, raised |-> r.raised ]
           /\ heap' = [heap EXCEPT ![o] = r.obj]
           /\ UNCHANGED warnings

Next ==
  \/ NewStandard
  \/ NewBootstrap
  \/ EvaluateVector
  \/ Evaluate
  \/ ChooseBins
  \/ Return

Spec == Init /\ [][Next]_vars

(***************************************************************************)
(* Multiple estimators.  The initial state holds two constructed member    *)
(* estimators; a multiple estimator is built over one or both of them and  *)
(* the objects are evaluated.                                              *)
(***************************************************************************)
MaxMembers == 2   \* longest obj_fun_list of a multiple estimator

\* The member estimators, as their constructors leave them.
MemberObjects ==
  { objective_function_init(cfg.dataset, cfg.bins, "abs", cfg.subset_sizes).ret :
      cfg \in { c \in StandardConfigs : c.bins = <<2, 3>> /\ SumSeq(c.subset_sizes) = 3 } }
  \cup { bootstrap_objective_function_init(<<0, 1>>, <<1, 3>>, <<2, 3>>, "abs", 0).ret }

InitMultiple ==
  /\ heap \in [1..2 -> MemberObjects]
  /\ warnings = [ o \in 1..Len(heap) |-> 0 ]
  /\ call = NoCall

\* multiple_objectives(obj_fun_list, check_spectral_conditon)
NewMultiple ==
  /\ Idle
  /\ \A o \in 1..Len(heap) : heap[o].class # "multiple_objectives"
  /\ \E obj_fun_list \in SeqsUpTo(1..Len(heap), MaxMembers),
        check_spectral_conditon \in BOOLEAN, svd_fails \in BOOLEAN :
       LET r == multiple_objectives_init(heap, obj_fun_list, check_spectral_conditon, svd_fails)
       IN  /\ call' = [ op |-> "multiple_objectives", obj_fun_list |-> obj_fun_list,
                        raised |-> r.raised, ret |-> r.ret, mismatch |-> r.mismatch ]
           /\ IF r.raised = "none"
                THEN heap' = Append(heap, r.ret) /\ warnings' = Append(warnings, 0)
                ELSE UNCHANGED <<heap, warnings>>

NextMultiple ==
  \/ NewMultiple
  \/ EvaluateVector
  \/ Evaluate
  \/ Return

SpecMultiple == InitMultiple /\ [][NextMultiple]_vars

(***************************************************************************)
(* Properties of the evaluations.                                          *)
(***************************************************************************)
EvaluationOps == {"evaluate", "evaluate_vector"}

IsMatrix(covar) == Len(covar.shape) = 2 /\ covar.shape[1] >= 1 /\ ~HasNaN(covar.data)
IsSingular(covar) == IsMatrix(covar) /\ Det(covar.data) = RInt(0)
IsRegular(covar) == IsMatrix(covar) /\ Det(covar.data) # RInt(0)

\* The evaluator ran on an object and a vector of the mean vector's length.
RanEvaluator ==
  /\ call.op = "evaluate_vector"
  /\ Len(call.vector) = Len(heap[call.obj].mean_vector)

Delta == NpSubtract(heap[call.obj].mean_vector, call.vector).ret

\* C1: an evaluator call on an estimator of any variant whose covariance
\* matrix is singular returns the score sum((mean - vector)^2) without an
\* exception, and leaves the warned flag set.
C1_SingularFallback ==
  (RanEvaluator /\ IsSingular(heap[call.obj].covar_matrix)) =>
    /\ call.raised = "none"
    /\ call.ret = Dot(Delta, Delta)
    /\ FlagOf(heap[call.obj]) = TRUE

\* C2: an evaluator call against a non-singular covariance matrix returns the
\* Mahalanobis form delta . x with covar . x = delta, whether or not the warned
\* flag was set before the call.
C2_ScoreIgnoresFlag ==
  (RanEvaluator /\ IsRegular(heap[call.obj].covar_matrix)) =>
    /\ call.raised = "none"
    /\ call.ret = Dot(Delta, CramerSolve(heap[call.obj].covar_matrix.data, Delta))

SameButFlag(before, after) ==
  /\ DOMAIN after = DOMAIN before
  /\ \A field \in DOMAIN before \ {"error_printed"} : after[field] = before[field]

\* C3: a step that is an evaluate(dataset) call or a direct evaluation of an
\* ECDF vector changes no field of any estimator other than the warned flag,
\* and creates no estimator; a step that changes an estimator's mean vector
\* or covariance matrix is a re-binning.
C3_EvaluationFrame ==
  [][ /\ call'.op \in EvaluationOps =>
         /\ Len(heap') = Len(heap)
         /\ \A o \in 1..Len(heap) : SameButFlag(heap[o], heap'[o])
      /\ (\E o \in 1..Len(heap) :
            \/ heap'[o].mean_vector # heap[o].mean_vector
            \/ heap'[o].covar_matrix # heap[o].covar_matrix) => call'.op = "choose_bins"
    ]_vars

\* An evaluate(dataset) call on a standard estimator returned a score and set
\* the warned flag.
C3_Witness ==
  /\ call.op = "evaluate"
  /\ call.raised = "none"
  /\ call.flag_before = FALSE
  /\ heap[call.obj].error_printed = TRUE
  /\ warnings[call.obj] = 1

\* The members of a multiple estimator are standard estimators with at least
\* one subset and ECDF matrices of one column count.
WellFormedMembers(obj) ==
  \A m \in 1..Len(obj.obj_fun_list) :
    LET member == heap[obj.obj_fun_list[m]]
    IN  /\ member.class = "objective_function"
        /\ Len(member.subset_indices) >= 2
        /\ member.ecdf_list.shape = heap[obj.obj_fun_list[1]].ecdf_list.shape

\* C10: evaluate(dataset) on a multiple estimator with a well-formed member
\* list and a non-empty dataset returns a score.
C10_MultipleEvaluateReturns ==
  ( /\ call.op = "evaluate"
    /\ call.dataset # <<>>
    /\ heap[call.obj].class = "multiple_objectives"
    /\ WellFormedMembers(heap[call.obj]) ) =>
    /\ call.raised = "none"
    /\ call.ret # "no value"

\* The listed members have ECDF matrices (two dimensions) and the column
\* count of one of them differs from the first member's.
ColumnCountsDiffer(obj_fun_list) ==
  /\ \A m \in 1..Len(obj_fun_list) : Len(heap[obj_fun_list[m]].ecdf_list.shape) = 2
  /\ \E m \in 1..Len(obj_fun_list) :
       heap[obj_fun_list[m]].ecdf_list.shape[2] # heap[obj_fun_list[1]].ecdf_list.shape[2]

\* C11: constructing a multiple estimator from members whose ECDF matrices
\* differ in their column counts raises an exception, and no multiple
\* estimator comes into existence.
C11_MismatchRejected ==
  (call.op = "multiple_objectives" /\ ColumnCountsDiffer(call.obj_fun_list)) =>
    /\ call.raised # "none"
    /\ \A o \in 1..Len(heap) : heap[o].class # "multiple_objectives"

\* The number of distinct values in subset_sizes.
DistinctSizes(subset_sizes) ==
  Cardinality({ subset_sizes[i] : i \in 1..Len(subset_sizes) })

\* C12: constructing a standard estimator with more than two distinct subset
\* sizes raises an exception and creates no estimator.
C12_ManySizesRejected ==
  (call.op = "objective_function" /\ DistinctSizes(call.subset_sizes) > 2) =>
    /\ call.raised # "none"
    /\ heap = <<>>

(***************************************************************************)
(* Direct calls of the vectorizer: the arguments are drawn by the initial  *)
(* state and the call is applied to them.                                  *)
(***************************************************************************)
InitVec ==
  /\ heap = <<>>
  /\ warnings = <<>>
  /\ \E distance_list \in SeqsUpTo(Values, MaxLen), bins \in SeqsUpTo(Values, MaxBins) :
       call = [ op |-> "pending", distance_list |-> distance_list, bins |-> bins ]

\* A direct call of the vectorizer of utils.py.
CallVectorize ==
  /\ call.op = "pending"
  /\ call' = [ op |-> "vectorize", distance_list |-> call.distance_list,
               bins |-> call.bins, raised |-> "none",
               ret |-> empirical_cumulative_distribution_vector(call.distance_list, call.bins) ]
  /\ UNCHANGED <<heap, warnings>>

\* A direct call of the vectorizer of objective_function.py.
CallVectorizeObj ==
  /\ call.op = "pending"
  /\ call' = [ op |-> "vectorize_obj", distance_list |-> call.distance_list,
               bins |-> call.bins, raised |-> "none",
               ret |-> empirical_cumulative_distribution_vector_obj(call.distance_list, call.bins) ]
  /\ UNCHANGED <<heap, warnings>>

NextVec == CallVectorize \/ CallVectorizeObj

SpecVec == InitVec /\ [][NextVec]_vars

IsVectorizeCall == call.op \in {"vectorize", "vectorize_obj"}

\* C5: for a non-empty distance list L, entry d of the vectorizer's result is
\* (number of positions of L holding a value strictly below B[d]) / |L|, lies in
\* [0, 1], and the result is non-decreasing in d when B is sorted ascending.
C5_VectorizeIsEcdf ==
  (IsVectorizeCall /\ call.distance_list # <<>>) =>
    LET L == call.distance_list
        B == call.bins
        below(d) == Cardinality({ k \in 1..Len(L) : L[k] < B[d] })
        sorted == \A d \in 1..(Len(B) - 1) : B[d] <= B[d + 1]
    IN  /\ call.raised = "none"
        /\ Len(call.ret) = Len(B)
        /\ \A d \in 1..Len(B) :
             /\ IsFinite(call.ret[d])
             /\ call.ret[d][1] * Len(L) = below(d) * call.ret[d][2]
             /\ RLeq(RInt(0), call.ret[d]) /\ RLeq(call.ret[d], RInt(1))
        /\ sorted => \A d \in 1..(Len(B) - 1) : RLeq(call.ret[d], call.ret[d + 1])

\* C5 witness: a distance equal to a bin value was vectorized and not counted.
C5_Witness ==
  /\ IsVectorizeCall
  /\ call.distance_list = <<1, 0, 2>>
  /\ call.bins = <<1, 2>>
  /\ call.ret = <<Frac(1, 3), Frac(2, 3)>>

\* C8: vectorizing an empty distance list raises an error and yields no vector
\* (stated for the non-empty bin sequences, where a vector has entries).
C8_EmptyListRaises ==
  (IsVectorizeCall /\ call.distance_list = <<>> /\ call.bins # <<>>) =>
    call.raised # "none"

=============================================================================
